---- MODULE Spec2Model ----
(***************************************************************************)
(* The C boundary of VoiceFlow (crates/voiceflow-ffi/src/lib.rs).          *)
(*                                                                         *)
(* State: the configuration file at its default location, the heap of      *)
(* objects this layer has handed to the host (handles and C strings), the  *)
(* values the host still has to release, the debug log, and the call that  *)
(* returned last.  Each entry point is one action; the pipeline and the    *)
(* configuration collaborators (crate voiceflow_core) are modelled at      *)
(* their interface, with every outcome (Ok, Err, panic) they can have.     *)
(*                                                                         *)
(* Text is a sequence of pieces, each a piece of NUL-free text or the      *)
(* single byte NUL; format! is concatenation and CString::new fails on a   *)
(* text that holds a NUL.                                                  *)
(***************************************************************************)
EXTENDS Integers, Sequences, FiniteSets, TLC

VARIABLES
  store,    \* the configuration file at the default location
  heap,     \* live allocations handed across the boundary: address -> object
  held,     \* the values the host has received and not yet released
  log,      \* lines appended to /tmp/voiceflow_debug.log since the latest call began
  last,     \* the entry point that returned last: its inputs and its return value
  lastSet,  \* history: the latest set-current call, when it returned true
  th        \* host threads that are inside a configuration call (SpecConc)

vars == <<store, heap, held, log, last, lastSet, th>>

\* ------------------------------------------------------------------ bounds
\* The host holds at most MaxHeld unreleased values at a time.
MaxHeld == 2
\* Indices passed to the descriptor-by-index calls range over 0..count+MaxIndexBeyond.
MaxIndexBeyond == 1

\* ------------------------------------------------------------------ text
NULL == 0
NUL == "\\0"

HasNul(s) == \E i \in DOMAIN s : s[i] = NUL

\* A value has at most BlockSize buffers (VoiceFlowResult, ModelInfo).
BlockSize == 3
MaxAddr == BlockSize * MaxHeld
Addrs == 1..MaxAddr

\* The allocator: addresses are opaque to the host. The buffers of one value are taken
\* from the lowest block of addresses that holds nothing; Alloc(h, k) is its k-th address.
BlockFree(h, b) == \A k \in 1..BlockSize : (BlockSize * b + k) \notin DOMAIN h
Alloc(h, k) ==
  LET b == CHOOSE c \in 0..(MaxHeld - 1) :
             BlockFree(h, c) /\ \A d \in 0..(c - 1) : ~BlockFree(h, d)
  IN BlockSize * b + k

\* CString::new(s).map(|s| s.into_raw()).unwrap_or(ptr::null_mut()), the buffer at address a
CString_into_raw(h, a, s) ==
  IF HasNul(s)
    THEN [heap |-> h, ptr |-> NULL]
    ELSE [heap |-> h @@ (a :> [kind |-> "cstr", bytes |-> s]), ptr |-> a]

\* CString::from_raw(p) dropped at once: the buffer is freed.
CString_from_raw(h, p) == [a \in DOMAIN h \ {p} |-> h[a]]

\* A C string argument of the host: a null pointer, bytes that are not UTF-8, or text.
CArg(text) == [null |-> FALSE, utf8 |-> TRUE, text |-> text]
NullArg == [null |-> TRUE, utf8 |-> FALSE, text |-> <<>>]
BadUtf8Arg == [null |-> FALSE, utf8 |-> FALSE, text |-> <<>>]

\* CStr::from_ptr(p).to_str()
CStr_to_str(p) == [ok |-> p.utf8, s |-> p.text]

\* ------------------------------------------------------------------ debug sink
\* A log_debug that never writes.
log_debug_Dropping(l, msg, sink_ok) == l

\* log_debug: the line is appended when the log file opens, and dropped otherwise.
\* The timestamp is left out.
log_debug(l, msg, sink_ok) == IF sink_ok THEN Append(l, msg) ELSE l

Logged(line) == \E i \in DOMAIN log : log[i] = line

\* ------------------------------------------------------------------ configuration
LlmModel == {"Qwen3_1_7B", "Qwen3_4B", "SmolLM3_3B", "Gemma2_2B", "Phi2", "Custom"}
SttEngine == {"Whisper", "Moonshine"}
MoonshineModel == {"Tiny", "Base"}

Config == [llm_model : LlmModel, stt_engine : SttEngine, moonshine_model : MoonshineModel]

\* Config::default() of voiceflow_core.
DefaultConfig == [llm_model |-> "Qwen3_1_7B", stt_engine |-> "Whisper", moonshine_model |-> "Base"]

\* A configuration file: absent, present but not parseable, or holding a configuration.
FileAbsent == [state |-> "absent", cfg |-> DefaultConfig]
FileCorrupt == [state |-> "corrupt", cfg |-> DefaultConfig]
FileOf(c) == [state |-> "valid", cfg |-> c]
\* A file that exists and holds these values in its text, but does not parse.
FileUnparsed(c) == [state |-> "corrupt", cfg |-> c]

LoadError == <<"failed to parse config file">>

\* Config::load: defaults when there is no file, an error when the file does not parse.
Config_load(file) ==
  CASE file.state = "absent" -> [ok |-> TRUE, cfg |-> DefaultConfig, err |-> <<>>]
    [] file.state = "corrupt" -> [ok |-> FALSE, cfg |-> DefaultConfig, err |-> LoadError]
    [] OTHER -> [ok |-> TRUE, cfg |-> file.cfg, err |-> <<>>]

\* Result::unwrap_or_default
unwrap_or_default(r) == IF r.ok THEN r.cfg ELSE DefaultConfig

\* ------------------------------------------------------------------ enum codec
\* The match of voiceflow_model_info and voiceflow_current_model.
LlmModelId(m) ==
  CASE m = "Qwen3_1_7B" -> "qwen3-1.7b"
    [] m = "Qwen3_4B" -> "qwen3-4b"
    [] m = "SmolLM3_3B" -> "smollm3-3b"
    [] m = "Gemma2_2B" -> "gemma2-2b"
    [] m = "Phi2" -> "phi-2"
    [] m = "Custom" -> "custom"

NoValue == "None"

\* A match whose last arm accepts every identifier.
ParseLlmModel_Lenient(id) ==
  CASE id = <<"qwen3-4b">> -> "Qwen3_4B"
    [] id = <<"smollm3-3b">> -> "SmolLM3_3B"
    [] id = <<"gemma2-2b">> -> "Gemma2_2B"
    [] id = <<"phi-2">> -> "Phi2"
    [] OTHER -> "Qwen3_1_7B"

\* The match of voiceflow_set_model: an unknown identifier maps to no value.
ParseLlmModel(id) ==
  CASE id = <<"qwen3-1.7b">> -> "Qwen3_1_7B"
    [] id = <<"qwen3-4b">> -> "Qwen3_4B"
    [] id = <<"smollm3-3b">> -> "SmolLM3_3B"
    [] id = <<"gemma2-2b">> -> "Gemma2_2B"
    [] id = <<"phi-2">> -> "Phi2"
    [] OTHER -> NoValue

\* A match on the engine with its two identifiers exchanged.
SttEngineId_Swapped(e) ==
  CASE e = "Whisper" -> "moonshine"
    [] e = "Moonshine" -> "whisper"

\* The match of voiceflow_current_stt_engine.
SttEngineId(e) ==
  CASE e = "Whisper" -> "whisper"
    [] e = "Moonshine" -> "moonshine"

ParseSttEngine(id) ==
  CASE id = <<"whisper">> -> "Whisper"
    [] id = <<"moonshine">> -> "Moonshine"
    [] OTHER -> NoValue

MoonshineModelId(m) ==
  CASE m = "Tiny" -> "tiny"
    [] m = "Base" -> "base"

ParseMoonshineModel(id) ==
  CASE id = <<"tiny">> -> "Tiny"
    [] id = <<"base">> -> "Base"
    [] OTHER -> NoValue

\* ------------------------------------------------------------------ collaborators
\* What a panic carries: a &str, a String, or a value of another type.
NoPanic == [type |-> "none", msg |-> <<>>]
PanicPayloads ==
  { [type |-> "&str", msg |-> <<"index out of bounds">>],
    [type |-> "String", msg |-> <<"bad token ", NUL, " in stream">>],
    [type |-> "other", msg |-> <<>>] }

\* The downcast chain after catch_unwind.
panic_message(e) ==
  IF e.type = "&str" THEN e.msg
  ELSE IF e.type = "String" THEN e.msg
  ELSE <<"Unknown panic">>

\* Descriptions (Display) of the errors of voiceflow_core.
ErrorDescriptions == { <<"model file not found">>, <<"invalid input ", NUL>> }

\* Pipeline::new(&config): a pipeline that keeps the configuration, an error, or a panic.
NewOutcomes ==
  {[kind |-> "ok", err |-> <<>>, payload |-> NoPanic]}
    \cup {[kind |-> "err", err |-> e, payload |-> NoPanic] : e \in ErrorDescriptions}
    \cup {[kind |-> "panic", err |-> <<>>, payload |-> p] : p \in PanicPayloads}

\* Config::load may panic instead of returning.
LoadPanics == {NoPanic, [type |-> "&str", msg |-> <<"index out of bounds">>]}

NoTimings == [transcription_ms |-> 0, llm_formatting_ms |-> 0, total_ms |-> 0]
NoOutput == [formatted_text |-> <<>>, raw_transcript |-> <<>>, timings |-> NoTimings]

\* What Pipeline::process can return on success.
ProcessOutputs ==
  { [formatted_text |-> <<"Hello, world.">>, raw_transcript |-> <<"hello world">>,
     timings |-> [transcription_ms |-> 120, llm_formatting_ms |-> 80, total_ms |-> 200]],
    [formatted_text |-> <<"Hi", NUL, "there">>, raw_transcript |-> <<"hi there">>,
     timings |-> [transcription_ms |-> 7, llm_formatting_ms |-> 0, total_ms |-> 7]] }

\* Pipeline::process(audio, context): a result, an error, or a panic.
ProcessOutcomes ==
  {[kind |-> "ok", out |-> o, err |-> <<>>, payload |-> NoPanic] : o \in ProcessOutputs}
    \cup {[kind |-> "err", out |-> NoOutput, err |-> e, payload |-> NoPanic] : e \in ErrorDescriptions}
    \cup {[kind |-> "panic", out |-> NoOutput, err |-> <<>>, payload |-> p] : p \in PanicPayloads}

\* ------------------------------------------------------------------ host inputs
\* The audio buffers of the host: no sample, and two samples.
AudioBuffers == {<<>>, <<1, -2>>}

\* audio_data and audio_len: a null pointer with any length, or a buffer and its length.
AudioArgs ==
  {[null |-> TRUE, len |-> n, samples |-> <<>>] : n \in {0, 2}}
    \cup {[null |-> FALSE, len |-> Len(b), samples |-> b] : b \in AudioBuffers}

ContextArgs == {NullArg, BadUtf8Arg, CArg(<<"email">>)}
PathArgs == {NullArg, BadUtf8Arg, CArg(<<"/etc/voiceflow.toml">>)}

Abs(x) == IF x < 0 THEN -x ELSE x
Max(a, b) == IF a >= b THEN a ELSE b

\* audio.iter().fold(0.0f32, |a, &b| a.max(b.abs()))
RECURSIVE MaxAmplitude(_)
MaxAmplitude(samples) ==
  IF samples = <<>> THEN 0
  ELSE Max(MaxAmplitude(SubSeq(samples, 1, Len(samples) - 1)), Abs(samples[Len(samples)]))

\* The live handles the host holds.
HeldHandles == {v.ptr : v \in {w \in held : w.type = "handle"}}

Room == Cardinality(held) < MaxHeld

\* ------------------------------------------------------------------ results
InvalidMsg == <<"Invalid handle or audio data">>

\* error_result(msg)
error_result(h, msg) ==
  LET e == CString_into_raw(h, Alloc(h, 1), msg)
  IN [heap |-> e.heap,
      result |-> [success |-> FALSE, formatted_text |-> NULL, raw_transcript |-> NULL,
                  error_message |-> e.ptr,
                  transcription_ms |-> 0, llm_ms |-> 0, total_ms |-> 0]]

\* The Ok arm of voiceflow_process: both texts become C strings.
success_result(h, out) ==
  LET f == CString_into_raw(h, Alloc(h, 1), out.formatted_text)
      r == CString_into_raw(f.heap, Alloc(h, 2), out.raw_transcript)
  IN [heap |-> r.heap,
      result |-> [success |-> TRUE, formatted_text |-> f.ptr, raw_transcript |-> r.ptr,
                  error_message |-> NULL,
                  transcription_ms |-> out.timings.transcription_ms,
                  llm_ms |-> out.timings.llm_formatting_ms,
                  total_ms |-> out.timings.total_ms]]

\* A null check that forgets the audio pointer.
InvalidInput_HandleOnly(handle, audio) == handle = NULL

\* The null check of voiceflow_process, before the wrapped body.
InvalidInput(handle, audio) == handle = NULL \/ audio.null

\* The value the host keeps of a VoiceFlowResult: its three buffers.
HeldResult(r) ==
  [type |-> "result", formatted_text |-> r.formatted_text,
   raw_transcript |-> r.raw_transcript, error_message |-> r.error_message]

\* The context the pipeline is given: a context that is null or does not decode is absent.
ContextStr(context) ==
  IF context.null THEN "None"
  ELSE IF CStr_to_str(context).ok THEN "Some" ELSE "None"

\* voiceflow_process(handle, audio_data, audio_len, context); context_str is what the
\* context pointer decodes to.
voiceflow_process(handle, audio, context_str, outcome, sink_ok) ==
  LET l0 == log_debug(<<>>, <<"voiceflow_process called with ", ToString(audio.len), " samples">>, sink_ok)
  IN
  /\ Room
  /\ IF InvalidInput(handle, audio)
       THEN LET r == error_result(heap, InvalidMsg)
            IN /\ heap' = r.heap
               /\ held' = held \cup {HeldResult(r.result)}
               /\ log' = log_debug(l0, <<"ERROR - Invalid handle or audio data">>, sink_ok)
               /\ last' = [op |-> "voiceflow_process", handle_null |-> handle = NULL,
                           audio_null |-> audio.null, entered |-> FALSE, invoked |-> FALSE,
                           outcome |-> "none", desc |-> <<>>, sink_ok |-> sink_ok, ret |-> r.result]
       ELSE LET l1 == log_debug(l0, <<"Audio duration: ", ToString(audio.len), "/16000 s, max amplitude: ",
                                      ToString(MaxAmplitude(audio.samples))>>, sink_ok)
                l2 == log_debug(l1, <<"Calling pipeline.process()...">>, sink_ok)
                msg == panic_message(outcome.payload)
                r == CASE outcome.kind = "ok" -> success_result(heap, outcome.out)
                       [] outcome.kind = "err" -> error_result(heap, outcome.err)
                       [] outcome.kind = "panic" -> error_result(heap, <<"Internal error: ">> \o msg)
                l3 == CASE outcome.kind = "ok" ->
                             log_debug(log_debug(l2, <<"Success! Raw transcript: '">> \o outcome.out.raw_transcript \o <<"'">>, sink_ok),
                                       <<"Formatted text: '">> \o outcome.out.formatted_text \o <<"'">>, sink_ok)
                        [] outcome.kind = "err" ->
                             log_debug(l2, <<"ERROR - pipeline.process failed: ">> \o outcome.err, sink_ok)
                        [] outcome.kind = "panic" ->
                             log_debug(l2, <<"PANIC caught in voiceflow_process: ">> \o msg, sink_ok)
            IN /\ heap' = r.heap
               /\ held' = held \cup {HeldResult(r.result)}
               /\ log' = l3
               /\ last' = [op |-> "voiceflow_process", handle_null |-> handle = NULL,
                           audio_null |-> audio.null, entered |-> TRUE, invoked |-> TRUE,
                           outcome |-> outcome.kind,
                           desc |-> IF outcome.kind = "panic" THEN msg ELSE outcome.err,
                           sink_ok |-> sink_ok, ret |-> r.result]
  /\ UNCHANGED <<store, lastSet, th>>

\* The non-null buffers of a VoiceFlowResult that voiceflow_free_result frees.
ResultBuffers(r) == {r.formatted_text, r.raw_transcript, r.error_message} \ {NULL}

\* voiceflow_free_result(result)
voiceflow_free_result(result) ==
  /\ heap' = [a \in DOMAIN heap \ ResultBuffers(result) |-> heap[a]]
  /\ held' = held \ {result}
  /\ log' = <<>>
  /\ last' = [op |-> "voiceflow_free_result"]
  /\ UNCHANGED <<store, lastSet, th>>

\* ------------------------------------------------------------------ handle lifecycle
\* The wrapped body of voiceflow_init, up to the value or the panic it ends with.
InitBody(config_path, file, load_panic, new_outcome, l0, sink_ok) ==
  IF ~config_path.null /\ ~CStr_to_str(config_path).ok
    THEN [out |-> "null", cfg |-> DefaultConfig, payload |-> NoPanic, log |-> l0,
          decoded |-> FALSE, loaded |-> "unreached", built |-> "unreached", err |-> <<>>]
  ELSE IF load_panic # NoPanic
    THEN [out |-> "panic", cfg |-> DefaultConfig, payload |-> load_panic, log |-> l0,
          decoded |-> TRUE, loaded |-> "panic", built |-> "unreached", err |-> <<>>]
  ELSE
    LET r == Config_load(file)
        l1 == log_debug(l0, <<"Config loaded: STT=", r.cfg.stt_engine>>, sink_ok)
        l2 == log_debug(l1, <<"Creating pipeline (loading ONNX models - this may take a while)...">>, sink_ok)
    IN IF ~r.ok
         THEN [out |-> "null", cfg |-> DefaultConfig, payload |-> NoPanic,
               log |-> log_debug(l0, <<"Failed to load config: ">> \o r.err, sink_ok),
               decoded |-> TRUE, loaded |-> "err", built |-> "unreached", err |-> r.err]
       ELSE IF new_outcome.kind = "panic"
         THEN [out |-> "panic", cfg |-> r.cfg, payload |-> new_outcome.payload, log |-> l2,
               decoded |-> TRUE, loaded |-> "ok", built |-> "panic", err |-> <<>>]
       ELSE IF new_outcome.kind = "err"
         THEN [out |-> "null", cfg |-> r.cfg, payload |-> NoPanic,
               log |-> log_debug(l2, <<"Failed to create pipeline: ">> \o new_outcome.err, sink_ok),
               decoded |-> TRUE, loaded |-> "ok", built |-> "err", err |-> new_outcome.err]
       ELSE [out |-> "handle", cfg |-> r.cfg, payload |-> NoPanic,
             log |-> log_debug(log_debug(l2, <<"Pipeline created successfully">>, sink_ok),
                               <<"voiceflow_init complete - returning handle">>, sink_ok),
             decoded |-> TRUE, loaded |-> "ok", built |-> "ok", err |-> <<>>]

\* Config::load(config_str) reads the file at the default location when no path is given.
ConfigFile(config_path, path_file) == IF config_path.null THEN store ELSE path_file

\* voiceflow_init(config_path); path_file is the file the path names.
voiceflow_init(config_path, path_file, load_panic, new_outcome, sink_ok) ==
  LET l0 == log_debug(<<>>, <<"voiceflow_init called">>, sink_ok)
      body == InitBody(config_path, ConfigFile(config_path, path_file), load_panic,
                       new_outcome, l0, sink_ok)
      a == Alloc(heap, 1)
      ret == IF body.out = "handle" THEN a ELSE NULL
  IN
  /\ body.out = "handle" => Room
  /\ heap' = IF body.out = "handle"
               THEN heap @@ (a :> [kind |-> "handle", cfg |-> body.cfg])
               ELSE heap
  /\ held' = IF body.out = "handle" THEN held \cup {[type |-> "handle", ptr |-> a]} ELSE held
  /\ log' = IF body.out = "panic"
              THEN log_debug(body.log, <<"PANIC caught in voiceflow_init: ">> \o panic_message(body.payload), sink_ok)
              ELSE body.log
  /\ last' = [op |-> "voiceflow_init", decoded |-> body.decoded, loaded |-> body.loaded,
              built |-> body.built, err |-> body.err,
              desc |-> IF body.out = "panic" THEN panic_message(body.payload) ELSE <<>>,
              invoked |-> FALSE, sink_ok |-> sink_ok, ret |-> ret]
  /\ UNCHANGED <<store, lastSet, th>>

\* voiceflow_destroy(handle): the handle is a live handle of the host, or null.
voiceflow_destroy(handle) ==
  /\ heap' = IF handle # NULL THEN [a \in DOMAIN heap \ {handle} |-> heap[a]] ELSE heap
  /\ held' = held \ {[type |-> "handle", ptr |-> handle]}
  /\ log' = <<>>
  /\ last' = [op |-> "voiceflow_destroy", arg_null |-> handle = NULL, invoked |-> FALSE]
  /\ UNCHANGED <<store, lastSet, th>>

\* ------------------------------------------------------------------ model catalog
\* LlmModel::all_models() of voiceflow_core.
all_models == <<"Qwen3_1_7B", "Qwen3_4B", "SmolLM3_3B", "Gemma2_2B", "Phi2">>

\* LlmModel::display_name, filename and size_gb; MoonshineModel::display_name and size_mb.
display_name(m) == <<"display name of ", m>>
filename(m) == <<"file of ", m>>
size_gb(m) == 1
size_mb(m) == 1

voiceflow_model_count == Len(all_models)

EmptyModelInfo ==
  [id |-> NULL, display_name |-> NULL, filename |-> NULL, size_gb |-> 0, is_downloaded |-> FALSE]

HeldModelInfo(i) ==
  [type |-> "model_info", id |-> i.id, display_name |-> i.display_name, filename |-> i.filename]

\* voiceflow_model_info(index); is_downloaded is a probe of the file system.
voiceflow_model_info(index, is_downloaded) ==
  LET model == all_models[index + 1]
      i == CString_into_raw(heap, Alloc(heap, 1), <<LlmModelId(model)>>)
      d == CString_into_raw(i.heap, Alloc(heap, 2), display_name(model))
      f == CString_into_raw(d.heap, Alloc(heap, 3), filename(model))
      info == IF index >= Len(all_models)
                THEN EmptyModelInfo
                ELSE [id |-> i.ptr, display_name |-> d.ptr, filename |-> f.ptr,
                      size_gb |-> size_gb(model), is_downloaded |-> is_downloaded]
  IN
  /\ Room
  /\ heap' = IF index >= Len(all_models) THEN heap ELSE f.heap
  /\ held' = held \cup {HeldModelInfo(info)}
  /\ log' = <<>>
  /\ last' = [op |-> "voiceflow_model_info", index |-> index, ret |-> info]
  /\ UNCHANGED <<store, lastSet, th>>

\* A release that forgets the filename buffer.
ModelInfoBuffers_NoFilename(info) == {info.id, info.display_name} \ {NULL}

\* The non-null buffers of a ModelInfo that voiceflow_free_model_info frees.
ModelInfoBuffers(info) == {info.id, info.display_name, info.filename} \ {NULL}

\* voiceflow_free_model_info(info)
voiceflow_free_model_info(info) ==
  /\ heap' = [a \in DOMAIN heap \ ModelInfoBuffers(info) |-> heap[a]]
  /\ held' = held \ {info}
  /\ log' = <<>>
  /\ last' = [op |-> "voiceflow_free_model_info"]
  /\ UNCHANGED <<store, lastSet, th>>

voiceflow_moonshine_model_count == 2

EmptyMoonshineModelInfo ==
  [id |-> NULL, display_name |-> NULL, size_mb |-> 0, is_downloaded |-> FALSE]

\* A match on index whose last arm is a model.
MoonshineModelAt_NoSentinel(index) ==
  CASE index = 0 -> "Tiny"
    [] OTHER -> "Base"

\* The match on index of voiceflow_moonshine_model_info.
MoonshineModelAt(index) ==
  CASE index = 0 -> "Tiny"
    [] index = 1 -> "Base"
    [] OTHER -> NoValue

HeldMoonshineModelInfo(i) ==
  [type |-> "moonshine_model_info", id |-> i.id, display_name |-> i.display_name]

\* voiceflow_moonshine_model_info(index); is_downloaded is a probe of the file system.
voiceflow_moonshine_model_info(index, is_downloaded) ==
  LET model == MoonshineModelAt(index)
      i == CString_into_raw(heap, Alloc(heap, 1), <<MoonshineModelId(model)>>)
      d == CString_into_raw(i.heap, Alloc(heap, 2), display_name(model))
      info == IF model = NoValue
                THEN EmptyMoonshineModelInfo
                ELSE [id |-> i.ptr, display_name |-> d.ptr,
                      size_mb |-> size_mb(model), is_downloaded |-> is_downloaded]
  IN
  /\ Room
  /\ heap' = IF model = NoValue THEN heap ELSE d.heap
  /\ held' = held \cup {HeldMoonshineModelInfo(info)}
  /\ log' = <<>>
  /\ last' = [op |-> "voiceflow_moonshine_model_info", index |-> index, ret |-> info]
  /\ UNCHANGED <<store, lastSet, th>>

\* The non-null buffers of a MoonshineModelInfo that its release call frees.
MoonshineModelInfoBuffers(info) == {info.id, info.display_name} \ {NULL}

\* voiceflow_free_moonshine_model_info(info)
voiceflow_free_moonshine_model_info(info) ==
  /\ heap' = [a \in DOMAIN heap \ MoonshineModelInfoBuffers(info) |-> heap[a]]
  /\ held' = held \ {info}
  /\ log' = <<>>
  /\ last' = [op |-> "voiceflow_free_moonshine_model_info"]
  /\ UNCHANGED <<store, lastSet, th>>

\* voiceflow_free_string(s): s is a string the host owns, or null.
voiceflow_free_string(s) ==
  /\ heap' = IF s # NULL THEN CString_from_raw(heap, s) ELSE heap
  /\ held' = held \ {[type |-> "string", ptr |-> s]}
  /\ log' = <<>>
  /\ last' = [op |-> "voiceflow_free_string"]
  /\ UNCHANGED <<store, lastSet, th>>

\* ------------------------------------------------------------------ configuration get/set
Enums == {"llm_model", "stt_engine", "moonshine_model"}

NoSet == [enum |-> "none", id |-> <<>>]

\* Config::save: the file holds the configuration when the write succeeds.
Config_save(file, config, save_ok) == IF save_ok THEN FileOf(config) ELSE file

\* The head of a set call: null check, decoding, and the match on the identifier.
SetValue(enum, arg) ==
  IF arg.null THEN NoValue
  ELSE IF ~CStr_to_str(arg).ok THEN NoValue
  ELSE CASE enum = "llm_model" -> ParseLlmModel(CStr_to_str(arg).s)
         [] enum = "stt_engine" -> ParseSttEngine(CStr_to_str(arg).s)
         [] enum = "moonshine_model" -> ParseMoonshineModel(CStr_to_str(arg).s)

\* config.<field> = value
Assign(config, enum, value) ==
  CASE enum = "llm_model" -> [config EXCEPT !.llm_model = value]
    [] enum = "stt_engine" -> [config EXCEPT !.stt_engine = value]
    [] enum = "moonshine_model" -> [config EXCEPT !.moonshine_model = value]

\* let mut config = Config::load(None).unwrap_or_default(); config.<field> = value;
SetSnapshot(file, enum, value) == Assign(unwrap_or_default(Config_load(file)), enum, value)

\* A set call of a host that makes one call at a time.
SetCurrent(op, enum, arg, save_ok) ==
  LET value == SetValue(enum, arg)
      ret == value # NoValue /\ save_ok
  IN
  /\ store' = IF value = NoValue
                THEN store
                ELSE Config_save(store, SetSnapshot(store, enum, value), save_ok)
  /\ log' = <<>>
  /\ last' = [op |-> op, arg |-> arg, ret |-> ret]
  /\ lastSet' = IF ret THEN [enum |-> enum, id |-> arg.text] ELSE NoSet
  /\ UNCHANGED <<heap, held, th>>

voiceflow_set_model(model_id, save_ok) ==
  SetCurrent("voiceflow_set_model", "llm_model", model_id, save_ok)

voiceflow_set_stt_engine(engine_id, save_ok) ==
  SetCurrent("voiceflow_set_stt_engine", "stt_engine", engine_id, save_ok)

voiceflow_set_moonshine_model(model_id, save_ok) ==
  SetCurrent("voiceflow_set_moonshine_model", "moonshine_model", model_id, save_ok)

\* The identifier a get call computes from the configuration file.
CurrentId(file, enum) ==
  LET config == unwrap_or_default(Config_load(file))
  IN CASE enum = "llm_model" -> LlmModelId(config.llm_model)
       [] enum = "stt_engine" -> SttEngineId(config.stt_engine)
       [] enum = "moonshine_model" -> MoonshineModelId(config.moonshine_model)

\* A get call: the identifier of the current value, as an owned string.
GetCurrent(op, enum) ==
  LET c == CString_into_raw(heap, Alloc(heap, 1), <<CurrentId(store, enum)>>)
  IN
  /\ Room
  /\ heap' = c.heap
  /\ held' = held \cup {[type |-> "string", ptr |-> c.ptr]}
  /\ log' = <<>>
  /\ last' = [op |-> op, ret |-> c.ptr]
  /\ UNCHANGED <<store, lastSet, th>>

voiceflow_current_model == GetCurrent("voiceflow_current_model", "llm_model")

voiceflow_current_stt_engine == GetCurrent("voiceflow_current_stt_engine", "stt_engine")

voiceflow_current_moonshine_model ==
  GetCurrent("voiceflow_current_moonshine_model", "moonshine_model")

\* A call that returns an owned string, or null: r is the text it has to return, if any.
NoText == [some |-> FALSE, text |-> <<>>]
SomeText(text) == [some |-> TRUE, text |-> text]
OwnedString(op, r) ==
  LET c == IF r.some
             THEN CString_into_raw(heap, Alloc(heap, 1), r.text)
             ELSE [heap |-> heap, ptr |-> NULL]
  IN
  /\ Room
  /\ heap' = c.heap
  /\ held' = held \cup {[type |-> "string", ptr |-> c.ptr]}
  /\ log' = <<>>
  /\ last' = [op |-> op, ret |-> c.ptr]
  /\ UNCHANGED <<store, lastSet, th>>

\* voiceflow_models_dir(): dir is Config::models_dir(), as text when it is Ok.
voiceflow_models_dir(dir) == OwnedString("voiceflow_models_dir", dir)

\* voiceflow_moonshine_models_dir(): parent is the parent of config.moonshine_model_dir(),
\* as text when there is one.
voiceflow_moonshine_models_dir(parent) == OwnedString("voiceflow_moonshine_models_dir", parent)

\* voiceflow_model_download_url(model_id): repo is model.hf_repo().
voiceflow_model_download_url(model_id, repo) ==
  LET model == SetValue("llm_model", model_id)
  IN OwnedString("voiceflow_model_download_url",
                 IF model = NoValue \/ ~repo.some
                   THEN NoText
                   ELSE SomeText(<<"https://huggingface.co/">> \o repo.text
                                   \o <<"/resolve/main/">> \o filename(model)))

\* ------------------------------------------------------------------ the host
Threads == {1, 2}

Idle == [pc |-> "idle"]

\* The identifiers the host passes to the set calls.
ModelIdArgs ==
  {NullArg, BadUtf8Arg, CArg(<<"not-a-real-id">>), CArg(<<"custom">>),
   CArg(<<"qwen3-1.7b">>), CArg(<<"qwen3-4b">>), CArg(<<"smollm3-3b">>),
   CArg(<<"gemma2-2b">>), CArg(<<"phi-2">>)}
EngineIdArgs == {NullArg, BadUtf8Arg, CArg(<<"vosk">>), CArg(<<"whisper">>), CArg(<<"moonshine">>)}
MoonshineIdArgs == {NullArg, BadUtf8Arg, CArg(<<"large">>), CArg(<<"tiny">>), CArg(<<"base">>)}

\* The file a config_path names, as the call finds it.
PathFiles ==
  {FileAbsent, FileCorrupt,
   FileOf([llm_model |-> "Phi2", stt_engine |-> "Moonshine", moonshine_model |-> "Tiny"])}

\* The configuration file as the first call finds it.
InitialFiles ==
  {FileAbsent,
   FileUnparsed([llm_model |-> "Custom", stt_engine |-> "Moonshine", moonshine_model |-> "Tiny"]),
   FileOf([llm_model |-> "Custom", stt_engine |-> "Moonshine", moonshine_model |-> "Tiny"])}

EmptyHeap == [a \in {} |-> NULL]

Init ==
  /\ store \in InitialFiles
  /\ heap = EmptyHeap
  /\ held = {}
  /\ log = <<>>
  /\ last = [op |-> "none"]
  /\ lastSet = NoSet
  /\ th = [t \in Threads |-> Idle]

HeldOf(type) == {v \in held : v.type = type}

\* The inputs of a voiceflow_init call, each drawn only where the call reads it.
InitCallOn(paths, sinks, load_panics, new_outcomes) ==
  \E p \in paths, ok \in sinks :
    \E f \in IF p.null \/ ~p.utf8 THEN {store} ELSE PathFiles :
      \E lp \in IF ~p.null /\ ~p.utf8 THEN {NoPanic} ELSE load_panics :
        \E n \in IF lp = NoPanic /\ Config_load(f).ok /\ (p.null \/ p.utf8)
                   THEN new_outcomes
                   ELSE {[kind |-> "ok", err |-> <<>>, payload |-> NoPanic]} :
          voiceflow_init(p, f, lp, n, ok)

InitCall == InitCallOn(PathArgs, BOOLEAN, LoadPanics, NewOutcomes)

\* The inputs of a voiceflow_process call; the pipeline answers only when it is called.
ProcessCallOn(handles, audios, contexts, sinks, outcomes) ==
  \E h \in handles, a \in audios, c \in {ContextStr(x) : x \in contexts}, ok \in sinks :
    \E o \in IF InvalidInput(h, a) THEN {[kind |-> "ok", out |-> NoOutput, err |-> <<>>, payload |-> NoPanic]}
             ELSE outcomes :
      voiceflow_process(h, a, c, o, ok)

ProcessCall ==
  ProcessCallOn(HeldHandles \cup {NULL}, AudioArgs, ContextArgs, BOOLEAN, ProcessOutcomes)

\* The indices of the host: every index up to MaxIndexBeyond past the count.
ModelIndices == 0..(voiceflow_model_count + MaxIndexBeyond)
MoonshineIndices == 0..(voiceflow_moonshine_model_count + MaxIndexBeyond)

CatalogOn(model_indices, moonshine_indices, flags) ==
  \/ \E i \in model_indices, d \in flags : voiceflow_model_info(i, d)
  \/ \E i \in moonshine_indices, d \in flags : voiceflow_moonshine_model_info(i, d)

Catalog == CatalogOn(ModelIndices, MoonshineIndices, BOOLEAN)

GetCall ==
  \/ voiceflow_current_model
  \/ voiceflow_current_stt_engine
  \/ voiceflow_current_moonshine_model

\* The directories and repositories the collaborators answer with.
DirResults == {NoText, SomeText(<<"/models">>)}
RepoResults == {NoText, SomeText(<<"org/repo">>)}

PathCall ==
  \/ \E d \in DirResults : voiceflow_models_dir(d)
  \/ \E d \in DirResults : voiceflow_moonshine_models_dir(d)
  \/ \E m \in {NullArg, CArg(<<"custom">>), CArg(<<"phi-2">>)}, r \in RepoResults :
       voiceflow_model_download_url(m, r)

SetCall ==
  \/ \E m \in ModelIdArgs, ok \in BOOLEAN : voiceflow_set_model(m, ok)
  \/ \E e \in EngineIdArgs, ok \in BOOLEAN : voiceflow_set_stt_engine(e, ok)
  \/ \E m \in MoonshineIdArgs, ok \in BOOLEAN : voiceflow_set_moonshine_model(m, ok)

\* The release calls of the host: each on a value it holds, or on null.
FreeResultCall == \E r \in HeldOf("result") : voiceflow_free_result(r)
DestroyCall == \E h \in HeldHandles \cup {NULL} : voiceflow_destroy(h)
FreeModelInfoCall == \E i \in HeldOf("model_info") : voiceflow_free_model_info(i)
FreeMoonshineModelInfoCall ==
  \E i \in HeldOf("moonshine_model_info") : voiceflow_free_moonshine_model_info(i)
FreeStringCall ==
  \E v \in HeldOf("string") \cup {[type |-> "string", ptr |-> NULL]} :
    voiceflow_free_string(v.ptr)

\* The handle lifecycle and the processing call.
Next == InitCall \/ ProcessCall \/ FreeResultCall \/ DestroyCall

Spec == Init /\ [][Next]_vars

\* The configuration calls of a host that makes one call at a time.
\* The host releases the string of a get call before it makes the next one.
NextConfig == SetCall \/ (HeldOf("string") = {} /\ GetCall) \/ FreeStringCall

SpecConfig == Init /\ [][NextConfig]_vars

\* The model catalogs.
NextCatalog == Catalog \/ FreeModelInfoCall \/ FreeMoonshineModelInfoCall

SpecCatalog == Init /\ [][NextCatalog]_vars

\* Every call that hands the host a value to release, and every release call. The
\* inputs are those that decide which buffers a value has: the path, the outcome of
\* the pipeline, the index.
MemoryNewOutcomes ==
  {o \in NewOutcomes : o.kind = "ok" \/ o.err = <<"model file not found">>}
MemoryProcessOutcomes ==
  {o \in ProcessOutcomes :
     \/ o.kind = "ok" /\ HasNul(o.out.formatted_text)
     \/ o.kind = "err"
     \/ o.kind = "panic" /\ o.payload.type = "other"}

NextMemory ==
  \/ InitCallOn({NullArg}, {TRUE}, {NoPanic}, MemoryNewOutcomes)
  \/ ProcessCallOn(HeldHandles \cup {NULL}, {[null |-> FALSE, len |-> 0, samples |-> <<>>]},
                   {NullArg}, {TRUE}, MemoryProcessOutcomes)
  \/ CatalogOn({0} \cup (ModelIndices \ (0..(voiceflow_model_count - 1))),
               {0} \cup (MoonshineIndices \ (0..(voiceflow_moonshine_model_count - 1))),
               {TRUE})
  \/ GetCall
  \/ PathCall
  \/ FreeResultCall
  \/ DestroyCall
  \/ FreeModelInfoCall
  \/ FreeMoonshineModelInfoCall
  \/ FreeStringCall

SpecMemory == Init /\ [][NextMemory]_vars

\* ------------------------------------------------------------------ concurrent calls
\* Host threads calling voiceflow_init and the set calls at the same time; nothing in
\* this layer locks, so the calls interleave at their accesses to the configuration file.

\* A set call up to its Config::load: a rejected identifier returns false at once.
SetLoad(t, op, enum, arg) ==
  LET value == SetValue(enum, arg)
  IN
  /\ th[t].pc = "idle"
  /\ IF value = NoValue
       THEN /\ last' = [op |-> op, arg |-> arg, ret |-> FALSE, prev |-> lastSet]
            /\ UNCHANGED th
       ELSE /\ th' = [th EXCEPT ![t] = [pc |-> "set_save", op |-> op, enum |-> enum, arg |-> arg,
                                        config |-> SetSnapshot(store, enum, value)]]
            /\ UNCHANGED last
  /\ UNCHANGED <<store, heap, held, log, lastSet>>

\* History of an init call that has started and not yet loaded: the set that has
\* persisted a change since the call started.
NotLate == [enum |-> "none", value |-> NoValue]
SawSave(threads, saved) ==
  [u \in Threads |->
     IF saved # NotLate /\ threads[u].pc = "init_begun"
       THEN [threads[u] EXCEPT !.late = saved]
       ELSE threads[u]]

\* What a returning set call leaves behind: its result, and the set that succeeded before it.
SetReturns(t, save_ok) ==
  /\ th' = SawSave([th EXCEPT ![t] = Idle],
                   IF save_ok /\ store' # store
                     THEN [enum |-> th[t].enum, value |-> SetValue(th[t].enum, th[t].arg)]
                     ELSE NotLate)
  /\ last' = [op |-> th[t].op, arg |-> th[t].arg, ret |-> save_ok, prev |-> lastSet]
  /\ lastSet' = IF save_ok THEN [enum |-> th[t].enum, id |-> th[t].arg.text] ELSE lastSet

\* A save that merges its one field into the file as it is now.
SetSave_Merge(t, save_ok) ==
  /\ th[t].pc = "set_save"
  /\ store' = Config_save(store,
                          Assign(unwrap_or_default(Config_load(store)), th[t].enum,
                                 SetValue(th[t].enum, th[t].arg)),
                          save_ok)
  /\ SetReturns(t, save_ok)
  /\ UNCHANGED <<heap, held, log>>

\* A save that also hands the new configuration to the pipelines that are running.
SetSave_HotSwap(t, save_ok) ==
  /\ th[t].pc = "set_save"
  /\ store' = Config_save(store, th[t].config, save_ok)
  /\ SetReturns(t, save_ok)
  /\ heap' = [a \in DOMAIN heap |->
                IF heap[a].kind = "handle" /\ save_ok
                  THEN [heap[a] EXCEPT !.cfg = th[t].config] ELSE heap[a]]
  /\ UNCHANGED <<held, log>>

\* config.save(None).is_ok(): the snapshot of this call replaces the file.
SetSave(t, save_ok) ==
  /\ th[t].pc = "set_save"
  /\ store' = Config_save(store, th[t].config, save_ok)
  /\ SetReturns(t, save_ok)
  /\ UNCHANGED <<heap, held, log>>

\* voiceflow_init up to its first line: the call has started.
InitBegin(t, sink_ok) ==
  /\ th[t].pc = "idle"
  /\ th' = [th EXCEPT ![t] = [pc |-> "init_begun", sink_ok |-> sink_ok, late |-> NotLate]]
  /\ log' = log_debug(<<>>, <<"voiceflow_init called">>, sink_ok)
  /\ UNCHANGED <<store, heap, held, last, lastSet>>

\* Config::load(None): the call reads the file as it is now.
InitLoad(t) ==
  /\ th[t].pc = "init_begun"
  /\ th' = [th EXCEPT ![t] = [pc |-> "init_loaded", sink_ok |-> th[t].sink_ok,
                              late |-> th[t].late, file |-> store]]
  /\ UNCHANGED <<store, heap, held, log, last, lastSet>>

\* The rest of voiceflow_init: Pipeline::new, the handle, the return.
InitBuild(t, new_outcome) ==
  LET sink_ok == th[t].sink_ok
      l0 == log_debug(<<>>, <<"voiceflow_init called">>, sink_ok)
      body == InitBody(NullArg, th[t].file, NoPanic, new_outcome, l0, sink_ok)
      a == Alloc(heap, 1)
      ret == IF body.out = "handle" THEN a ELSE NULL
  IN
  /\ th[t].pc = "init_loaded"
  /\ body.out = "handle" => Room
  /\ heap' = IF body.out = "handle"
               THEN heap @@ (a :> [kind |-> "handle", cfg |-> body.cfg])
               ELSE heap
  /\ held' = IF body.out = "handle" THEN held \cup {[type |-> "handle", ptr |-> a]} ELSE held
  /\ log' = body.log
  /\ last' = [op |-> "voiceflow_init", decoded |-> body.decoded, loaded |-> body.loaded,
              built |-> body.built, err |-> body.err, desc |-> <<>>,
              invoked |-> FALSE, sink_ok |-> sink_ok, ret |-> ret]
  /\ th' = [th EXCEPT ![t] = Idle]
  /\ UNCHANGED <<store, lastSet>>

\* The identifiers the threads set.
ConcSets ==
  {<<"voiceflow_set_model", "llm_model", CArg(<<"qwen3-4b">>)>>,
   <<"voiceflow_set_stt_engine", "stt_engine", CArg(<<"moonshine">>)>>}

\* What Pipeline::new and Pipeline::process answer to the threads.
ConcNewOutcomes == {o \in NewOutcomes : o.kind = "ok"}
ConcProcessOutcomes ==
  {o \in ProcessOutcomes : o.kind = "ok" /\ ~HasNul(o.out.formatted_text)}

NextConc ==
  \/ \E t \in Threads, c \in ConcSets : SetLoad(t, c[1], c[2], c[3])
  \/ \E t \in Threads, ok \in BOOLEAN : SetSave(t, ok)
  \/ \E t \in Threads : InitBegin(t, TRUE)
  \/ \E t \in Threads : InitLoad(t)
  \/ \E t \in Threads, n \in ConcNewOutcomes : InitBuild(t, n)
  \/ ProcessCallOn(HeldHandles, {[null |-> FALSE, len |-> 0, samples |-> <<>>]},
                   {NullArg}, {TRUE}, ConcProcessOutcomes)
  \/ FreeResultCall
  \/ DestroyCall

SpecConc == Init /\ [][NextConc]_vars

\* ------------------------------------------------------------------ claims
IsProcess == last.op = "voiceflow_process"
IsInit == last.op = "voiceflow_init"

\* The two shapes of a VoiceFlowResult.
SuccessShape(r) == r.success /\ r.error_message = NULL
FailureShape(r) ==
  ~r.success /\ r.formatted_text = NULL /\ r.raw_transcript = NULL /\ r.error_message # NULL

\* C1: every VoiceFlowResult that voiceflow_process returns is either a success with
\* a null error buffer, or a failure with null text buffers and a non-null error
\* buffer, whatever description the pipeline or a panic produces.
C1_ResultShape == IsProcess => SuccessShape(last.ret) \/ FailureShape(last.ret)

\* C2: when the wrapped body panics, voiceflow_process returns a failure whose error
\* buffer carries the panic description and voiceflow_init returns null, and the line
\* describing the panic is in the log wherever the log file opens.
C2_PanicContained ==
  /\ (IsProcess /\ last.outcome = "panic") =>
       /\ ~last.ret.success
       /\ last.ret.error_message # NULL
       /\ heap[last.ret.error_message].bytes = <<"Internal error: ">> \o last.desc
       /\ last.sink_ok => Logged(<<"PANIC caught in voiceflow_process: ">> \o last.desc)
  /\ (IsInit /\ (last.loaded = "panic" \/ last.built = "panic")) =>
       /\ last.ret = NULL
       /\ last.sink_ok => Logged(<<"PANIC caught in voiceflow_init: ">> \o last.desc)

\* C3: voiceflow_process with a null handle, or with a null audio pointer, returns a
\* failure whose error buffer holds the fixed message, with zero timings and null text
\* buffers, and neither enters the wrapped body nor calls the pipeline.
C3_NullInputRejected ==
  (IsProcess /\ (last.handle_null \/ last.audio_null)) =>
    /\ ~last.ret.success
    /\ last.ret.error_message # NULL
    /\ last.ret.error_message \in DOMAIN heap
    /\ heap[last.ret.error_message].bytes = InvalidMsg
    /\ last.ret.transcription_ms = 0 /\ last.ret.llm_ms = 0 /\ last.ret.total_ms = 0
    /\ last.ret.formatted_text = NULL /\ last.ret.raw_transcript = NULL
    /\ ~last.entered
    /\ ~last.invoked

\* A live handle with a null audio pointer has been rejected.
C3_Witness ==
  /\ IsProcess /\ ~last.handle_null /\ last.audio_null
  /\ ~last.ret.success
  /\ heap[last.ret.error_message].bytes = InvalidMsg

\* Every handle on the heap is one the host was given.
HandlesHeld ==
  \A a \in DOMAIN heap : heap[a].kind = "handle" => [type |-> "handle", ptr |-> a] \in held

InitSucceeds == last.decoded /\ last.loaded = "ok" /\ last.built = "ok"

\* The line voiceflow_init writes for a failure of Config::load or of Pipeline::new.
FailureLine ==
  IF last.loaded = "err" THEN <<"Failed to load config: ">> \o last.err
  ELSE <<"Failed to create pipeline: ">> \o last.err

InitFailed == IsInit /\ (last.loaded = "err" \/ last.built = "err")

SetOps == {"voiceflow_set_model", "voiceflow_set_stt_engine", "voiceflow_set_moonshine_model"}
EnumCalls ==
  {[enum |-> "llm_model", set |-> "voiceflow_set_model", get |-> "voiceflow_current_model"],
   [enum |-> "stt_engine", set |-> "voiceflow_set_stt_engine",
    get |-> "voiceflow_current_stt_engine"],
   [enum |-> "moonshine_model", set |-> "voiceflow_set_moonshine_model",
    get |-> "voiceflow_current_moonshine_model"]}

\* The identifiers each set call accepts.
AcceptedIds(op) ==
  CASE op = "voiceflow_set_model" ->
         {<<"qwen3-1.7b">>, <<"qwen3-4b">>, <<"smollm3-3b">>, <<"gemma2-2b">>, <<"phi-2">>}
    [] op = "voiceflow_set_stt_engine" -> {<<"whisper">>, <<"moonshine">>}
    [] op = "voiceflow_set_moonshine_model" -> {<<"tiny">>, <<"base">>}

\* C5: after a set call with an accepted identifier has returned true, the get call
\* of the same enumeration, with no set call in between, returns a non-null string
\* that holds exactly that identifier.
C5_SetGetRoundTrip ==
  \A c \in EnumCalls :
    (lastSet.enum = c.enum /\ last.op = c.get) =>
      /\ lastSet.id \in AcceptedIds(c.set)
      /\ last.ret # NULL
      /\ last.ret \in DOMAIN heap
      /\ heap[last.ret].bytes = lastSet.id

\* The engine was set to "moonshine" over a file that said otherwise, and read back.
C5_Witness ==
  /\ lastSet = [enum |-> "stt_engine", id |-> <<"moonshine">>]
  /\ last.op = "voiceflow_current_stt_engine"
  /\ heap[last.ret].bytes = <<"moonshine">>
  /\ store.cfg.llm_model = "Qwen3_1_7B"

\* The argument of a set call is null, is not UTF-8, or is not an accepted identifier.
Rejected(call) ==
  call.arg.null \/ ~call.arg.utf8 \/ call.arg.text \notin AcceptedIds(call.op)

\* C6: a set call whose identifier is null, not decodable, or not accepted returns
\* false and leaves the configuration file as it was, so every get call answers after
\* the call what it answered before.
C6_RejectedSetMutatesNothing ==
  [][(last'.op \in SetOps /\ Rejected(last')) =>
       /\ last'.ret = FALSE
       /\ store' = store
       /\ \A e \in Enums : CurrentId(store', e) = CurrentId(store, e)]_vars

\* "custom" has been refused over a file that an earlier set call wrote.
C6_Witness ==
  /\ last.op = "voiceflow_set_model"
  /\ last.arg = CArg(<<"custom">>)
  /\ last.ret = FALSE
  /\ store = FileOf([llm_model |-> "Phi2", stt_engine |-> "Whisper", moonshine_model |-> "Base"])

\* The buffers a value of the host owns.
Owned(v) ==
  CASE v.type = "result" -> {v.formatted_text, v.raw_transcript, v.error_message} \ {NULL}
    [] v.type = "model_info" -> {v.id, v.display_name, v.filename} \ {NULL}
    [] v.type = "moonshine_model_info" -> {v.id, v.display_name} \ {NULL}
    [] v.type = "handle" -> {v.ptr} \ {NULL}
    [] v.type = "string" -> {v.ptr} \ {NULL}

\* Every live allocation belongs to exactly one value the host still has to release.
NoLeak ==
  /\ DOMAIN heap = UNION {Owned(v) : v \in held}
  /\ \A v, w \in held : v # w => Owned(v) \cap Owned(w) = {}

ReleaseOps ==
  {"voiceflow_free_result", "voiceflow_destroy", "voiceflow_free_model_info",
   "voiceflow_free_moonshine_model_info", "voiceflow_free_string"}

\* A release call frees the buffers of the value it is given, and nothing else; the
\* pipeline is not called by voiceflow_init or voiceflow_destroy.
ReleaseExact ==
  /\ \A v \in held \ held' :
       /\ last'.op \in ReleaseOps
       /\ DOMAIN heap' = DOMAIN heap \ Owned(v)
       /\ \A a \in DOMAIN heap' : heap'[a] = heap[a]
  /\ (last'.op \in ReleaseOps /\ held' = held) => heap' = heap
  /\ last'.op \in {"voiceflow_init", "voiceflow_destroy"} => ~last'.invoked

StableLlmIds ==
  {<<"qwen3-1.7b">>, <<"qwen3-4b">>, <<"smollm3-3b">>, <<"gemma2-2b">>, <<"phi-2">>,
   <<"custom">>}
StableMoonshineIds == {<<"tiny">>, <<"base">>}

IsModelInfo == last.op = "voiceflow_model_info"
IsMoonshineModelInfo == last.op = "voiceflow_moonshine_model_info"

\* A descriptor call answers the sentinel from the count on, and below it a descriptor
\* whose identifier is a stable identifier of the enumeration.
DescriptorShape ==
  /\ IsModelInfo =>
       IF last.index >= voiceflow_model_count
         THEN last.ret = EmptyModelInfo
         ELSE /\ last.ret.id \in DOMAIN heap
              /\ heap[last.ret.id].bytes \in StableLlmIds
  /\ IsMoonshineModelInfo =>
       IF last.index >= voiceflow_moonshine_model_count
         THEN last.ret = EmptyMoonshineModelInfo
         ELSE /\ last.ret.id \in DOMAIN heap
              /\ heap[last.ret.id].bytes \in StableMoonshineIds

\* A descriptor call that answers the sentinel allocates nothing.
SentinelAllocatesNothing ==
  /\ (last'.op = "voiceflow_model_info" /\ last'.index >= voiceflow_model_count) =>
       heap' = heap
  /\ (last'.op = "voiceflow_moonshine_model_info"
        /\ last'.index >= voiceflow_moonshine_model_count) => heap' = heap

\* C8: a descriptor-by-index call with an index at or above the count returns the
\* sentinel (null buffers, zero size, false flag) and allocates nothing; below the
\* count it returns a descriptor whose identifier is a stable identifier.
C8_DescriptorByIndex == []DescriptorShape /\ [][SentinelAllocatesNothing]_vars

\* The Moonshine catalog has been asked for the index that equals its count, while the
\* host holds a descriptor.
C8_Witness ==
  /\ IsMoonshineModelInfo
  /\ last.index = voiceflow_moonshine_model_count
  /\ last.ret = EmptyMoonshineModelInfo
  /\ heap # EmptyHeap

\* Thread t returns from a set call that reports success.
SetReturnsTrue(t) == th[t].pc = "set_save" /\ th'[t].pc = "idle" /\ last'.ret = TRUE

\* C9: two set calls on different enumerations that overlap can both return true and
\* leave only the later writer's update in the file: a save that succeeds leaves the
\* file equal to the snapshot of its own call, whatever was saved since the call loaded.
C9_LastWriterWins ==
  [][\A t \in Threads : SetReturnsTrue(t) => store' = FileOf(th[t].config)]_vars

\* voiceflow_set_model("qwen3-4b") returned true, voiceflow_set_stt_engine("moonshine")
\* returned true after it, and the file holds the engine but not the model.
C9_Witness ==
  /\ last.op = "voiceflow_set_stt_engine" /\ last.ret = TRUE
  /\ last.prev = [enum |-> "llm_model", id |-> <<"qwen3-4b">>]
  /\ store.state = "valid"
  /\ store.cfg.stt_engine = "Moonshine"
  /\ store.cfg.llm_model = "Qwen3_1_7B"

\* No step changes the configuration of a live handle.
HandleStable ==
  \A a \in DOMAIN heap \cap DOMAIN heap' :
    (heap[a].kind = "handle" /\ heap'[a].kind = "handle") => heap'[a] = heap[a]

\* Thread t returns from voiceflow_init with a handle.
InitReturnsHandle(t) ==
  th[t].pc = "init_loaded" /\ th'[t].pc = "idle" /\ last'.ret # NULL

\* The field of a configuration that an enumeration names.
Field(config, enum) ==
  CASE enum = "llm_model" -> config.llm_model
    [] enum = "stt_engine" -> config.stt_engine
    [] enum = "moonshine_model" -> config.moonshine_model

C11_SetFrame ==
  [][(last'.op \in SetOps /\ last'.ret = TRUE) =>
       \A c \in EnumCalls :
         c.set # last'.op =>
           /\ Field(store'.cfg, c.enum) = Field(store.cfg, c.enum)
           /\ CurrentId(store', c.enum) = CurrentId(store, c.enum)]_vars

====
